---- MODULE Spec2Model ----
(***************************************************************************)
(* Sobol quasi-random sequence generator, pygsa/sampling/sobol_sequence.py *)
(* (class SobolSample).                                                    *)
(*                                                                         *)
(* Integers are the integers of the program.  A vector of n_dimensions     *)
(* entries is a sequence: the entry the program calls i (0-based) is at    *)
(* position i + 1.  The matrix V is a function on the row numbers 0..L.    *)
(* A floating-point number is its exact dyadic value <<num, exp>>, meaning *)
(* num / 2^exp with num odd (zero is <<0, 0>>): the division of an integer *)
(* below 2^53 by a power of two is exact in double precision.              *)
(***************************************************************************)
EXTENDS Integers, Sequences, FiniteSets, TLC

VARIABLES
    n_samples,      \* argument of __init__
    n_dimensions,   \* argument of __init__
    scale,          \* argument of __init__
    directions,     \* the direction-number table (directions.data)
    pc,             \* "start" before __init__, then "ready" or "failed"
    raised,         \* exception raised by the last __init__ / __next__ call
    attrs,          \* names of the attributes of self that exist
    L,              \* self.L
    current,        \* self.current
    Y,              \* self.Y
    V,              \* self.V
    calls,          \* number of __next__ calls made so far
    returned,       \* objects returned by __next__, in order
    sample_all,     \* matrix returned by generate_all_samples, <<>> if none
    bulk_raised,    \* exception raised by generate_all_samples
    probes,         \* <<value, index>> of every row of V selected so far
    bulk_first,     \* value of calls at the first generate_all_samples, or -1
    bulk_last,      \* value of calls at the latest generate_all_samples, or -1
    lsz_pc,         \* position inside index_of_least_significant_zero_bit
    lsz_in,         \* its argument
    value,          \* its local variable value
    index           \* its local variable index

vars == <<n_samples, n_dimensions, scale, directions, pc, raised, attrs, L,
          current, Y, V, calls, returned, sample_all, bulk_raised, probes,
          bulk_first, bulk_last, lsz_pc, lsz_in, value, index>>

genVars == <<n_samples, n_dimensions, scale, directions, pc, raised, attrs, L,
             current, Y, V, calls, returned, sample_all, bulk_raised, probes,
             bulk_first, bulk_last>>

lszVars == <<lsz_pc, lsz_in, value, index>>

(***************************************************************************)
(* Bounds of the model.                                                    *)
(***************************************************************************)
MaxSamples == 9
MaxDim == 3
MaxScale == 4
MaxExtraCalls == 2
MaxValue == 63

\* default of the scale parameter
DefaultScale == 31

(***************************************************************************)
(* Bit arithmetic on non-negative integers.                                *)
(***************************************************************************)
RECURSIVE Pow2(_)
Pow2(k) == IF k <= 0 THEN 1 ELSE 2 * Pow2(k - 1)

\* x << k
Shl(x, k) == x * Pow2(k)

\* x >> k
RECURSIVE Shr(_, _)
Shr(x, k) == IF k <= 0 THEN x ELSE Shr(x \div 2, k - 1)

\* a ^ b
RECURSIVE Xor(_, _)
Xor(a, b) ==
    IF a = 0 THEN b
    ELSE IF b = 0 THEN a
    ELSE (((a % 2) + (b % 2)) % 2) + (2 * Xor(a \div 2, b \div 2))

\* element-wise a ^ b of two vectors
XorRow(a, b) == [c \in 1..Len(a) |-> Xor(a[c], b[c])]

(***************************************************************************)
(* Floating-point values.                                                  *)
(***************************************************************************)
RECURSIVE Dyadic(_, _)
Dyadic(num, exp) ==
    IF num = 0 THEN <<0, 0>>
    ELSE IF num % 2 = 0 THEN Dyadic(num \div 2, exp - 1)
    ELSE <<num, exp>>

\* float(y / math.pow(2, scale)), mutated: divides by 2^(scale - 1)
ToFloat_half(y, sc) == Dyadic(y, sc - 1)

\* float(y / math.pow(2, scale))
ToFloat(y, sc) == Dyadic(y, sc)

\* the value of an element of an integer array
IntValue(y) == Dyadic(y, 0)

FloatRow(row, sc) == [c \in 1..Len(row) |-> ToFloat(row[c], sc)]

IntRow(row) == [c \in 1..Len(row) |-> IntValue(row[c])]

\* 0 <= f < 1 for a floating-point value f
InUnitInterval(f) ==
    /\ f[1] >= 0
    /\ f[1] = 0 \/ (f[2] >= 1 /\ Shr(f[1], f[2]) = 0)

(***************************************************************************)
(* index_of_least_significant_zero_bit as a function.                      *)
(***************************************************************************)
\* index = 1, mutated: starts at 0
LszInitIndex_zero == 1 - 1

\* index = 1
LszInitIndex == 1

RECURSIVE LszLoop(_, _)
LszLoop(v, idx) ==
    IF v % 2 # 0 THEN LszLoop(v \div 2, idx + 1) ELSE idx

index_of_least_significant_zero_bit(v) == LszLoop(v, LszInitIndex)

(***************************************************************************)
(* __init__: the number of bits L.                                         *)
(***************************************************************************)
RECURSIVE CeilLog2(_)
CeilLog2(n) == IF n <= 1 THEN 0 ELSE 1 + CeilLog2((n + 1) \div 2)

RECURSIVE FloorLog2(_)
FloorLog2(n) == IF n <= 1 THEN 0 ELSE 1 + FloorLog2(n \div 2)

IsPow2(n) == n >= 1 /\ Pow2(FloorLog2(n)) = n

\* Exponents k < 31 for which the double-precision quotient
\* math.log(2**k) / math.log(2) is above k (29.000000000000004); for every
\* other n below 2^31 the quotient rounds up to the exact ceil(log2(n)).
LogQuotientOvershoot == {29}

\* int(math.ceil(math.log(n_samples) / math.log(2))), mutated: math.floor
ComputeL_floor(n) == FloorLog2(n)

\* int(math.ceil(math.log(n_samples) / math.log(2)))
ComputeL(n) ==
    IF IsPow2(n) /\ FloorLog2(n) \in LogQuotientOvershoot
    THEN FloorLog2(n) + 1
    ELSE CeilLog2(n)

(***************************************************************************)
(* The direction-number table: entry m has m[0] the polynomial word and    *)
(* m[1..s] the seeds.                                                      *)
(***************************************************************************)
Poly(a, seeds) == [k \in 0..Len(seeds) |-> IF k = 0 THEN a ELSE seeds[k]]

\* s = len(m) - 1
Degree(m) == Cardinality(DOMAIN m) - 1

\* leading entries of the Joe-Kuo table
JoeKuo == <<Poly(0, <<1>>), Poly(1, <<1, 3>>), Poly(1, <<1, 3, 1>>),
            Poly(2, <<1, 1, 1>>)>>

\* the same polynomials, degree 3 first
JoeKuoDeg3 == <<Poly(1, <<1, 3, 1>>), Poly(2, <<1, 1, 1>>), Poly(1, <<1, 3>>)>>

\* a table with even seeds below 2^j
EvenSeeds == <<Poly(1, <<1, 2>>), Poly(1, <<1, 2, 6>>)>>

\* a table for two dimensions only
OneEntry == <<Poly(0, <<1>>)>>

Tables == {JoeKuo, JoeKuoDeg3, EvenSeeds, OneEntry, <<>>}

\* len(directions.data); line 56 measures the table as directions.data and
\* line 112 reads its entry i as directions[i]: both are taken to be the
\* same table
Capacity(table) == Len(table)

SeedsBounded(table) ==
    \A e \in 1..Len(table) : \A j \in 1..Degree(table[e]) :
        table[e][j] > 0 /\ table[e][j] < Pow2(j)

SeedsOdd(table) ==
    \A e \in 1..Len(table) : \A j \in 1..Degree(table[e]) :
        table[e][j] % 2 = 1 /\ table[e][j] < Pow2(j)

(***************************************************************************)
(* generate_V                                                              *)
(***************************************************************************)
\* V[j, 0], mutated: the same bit for every row
Column0Entry_fixed(j, sc) == IF j = 0 THEN 0 ELSE Shl(1, sc - 1)

\* V[1:, 0] = [1 << (scale - j) for j in range(1, L + 1)], row 0 is zero
Column0Entry(j, sc) == IF j = 0 THEN 0 ELSE Shl(1, sc - j)

\* for k in range(1, s): V[j] ^= ((m[0] >> (s - 1 - k)) & 1) * V[j - k]
RECURSIVE FoldLags(_, _, _, _, _)
FoldLags(acc, col, m, j, k) ==
    IF k >= Degree(m) THEN acc
    ELSE FoldLags(Xor(acc, (Shr(m[0], Degree(m) - 1 - k) % 2) * col[j - k]),
                  col, m, j, k + 1)

\* for j in range(s + 1, L + 1): V[j] = V[j - s] ^ (V[j - s] >> s); ...
RECURSIVE RecurRows(_, _, _, _)
RecurRows(col, m, j, maxRow) ==
    IF j > maxRow THEN col
    ELSE LET s == Degree(m)
             first == Xor(col[j - s], Shr(col[j - s], s))
         IN RecurRows([col EXCEPT ![j] = FoldLags(first, col, m, j, 1)],
                      m, j + 1, maxRow)

\* column i + 1 of V from m = directions[i]
ColumnOf(m, maxRow, sc) ==
    LET s == Degree(m)
    IN IF maxRow <= s
       THEN [j \in 0..maxRow |-> IF j = 0 THEN 0 ELSE Shl(m[j], sc - j)]
       ELSE RecurRows([j \in 0..maxRow |->
                          IF j \in 1..s THEN Shl(m[j], sc - j) ELSE 0],
                      m, s + 1, maxRow)

generate_V(nd, maxRow, sc, table) ==
    [j \in 0..maxRow |->
        [c \in 1..nd |-> IF c = 1 THEN Column0Entry(j, sc)
                         ELSE ColumnOf(table[c - 1], maxRow, sc)[j]]]

(***************************************************************************)
(* Row selection, exhaustion test and the bulk accumulator.                *)
(***************************************************************************)
\* row selected by generate_sample, mutated: uses current
StepIndex_current(cur) == index_of_least_significant_zero_bit(cur)

\* self.index_of_least_significant_zero_bit(self.current - 1)
StepIndex(cur) == index_of_least_significant_zero_bit(cur - 1)

\* row selected by generate_all_samples, mutated: uses j
BulkIndex_j(j) == index_of_least_significant_zero_bit(j)

\* self.index_of_least_significant_zero_bit(j - 1)
BulkIndex(j) == index_of_least_significant_zero_bit(j - 1)

\* exhaustion test, mutated: one call too many
Exhausted_late(cur, ns) == cur > ns

\* self.current > self.n_samples - 1
Exhausted(cur, ns) == cur > ns - 1

\* the bulk accumulator, mutated: starts from the iterator's accumulator
BulkX0_shared(nd) == Y

\* X = int(0), broadcast over the n_dimensions columns by the first ^=
BulkX0(nd) == [c \in 1..nd |-> 0]

\* rows 1..n_samples-1 of sample_all: X ^= V[idx]; sample_all[j] = X / 2^scale
RECURSIVE BulkRows(_, _, _, _, _, _)
BulkRows(rows, X, j, ns, Vm, sc) ==
    IF j > ns - 1 THEN rows
    ELSE LET X2 == XorRow(X, Vm[BulkIndex(j)])
         IN BulkRows(Append(rows, FloatRow(X2, sc)), X2, j + 1, ns, Vm, sc)

\* the matrix generate_all_samples returns; row 0 stays np.zeros
BulkMatrix(ns, nd, Vm, sc) ==
    BulkRows(<<[c \in 1..nd |-> <<0, 0>>]>>, BulkX0(nd), 1, ns, Vm, sc)

\* the sample indices j whose row of V does not exist
BulkBad(ns, Vm) == {j \in 1..(ns - 1) : BulkIndex(j) \notin DOMAIN Vm}

\* the content an object returned by __next__ has now
Deref(k) ==
    IF returned[k].obj = "Y" THEN IntRow(Y) ELSE returned[k].val

(***************************************************************************)
(* The generator: construction, __next__ and generate_all_samples.         *)
(***************************************************************************)
Scales == (0..MaxScale) \cup {DefaultScale}

\* a sample count whose logarithm quotient is inexact, with scale = log2
BigExp == CHOOSE k \in LogQuotientOvershoot : TRUE

LszIdle ==
    /\ lsz_pc = "idle"
    /\ lsz_in = 0
    /\ value = 0
    /\ index = 0

Init ==
    /\ \/ n_samples \in 1..MaxSamples /\ scale \in Scales
       \/ n_samples = Pow2(BigExp) /\ scale = BigExp
    /\ n_dimensions \in 1..MaxDim
    /\ directions \in Tables
    /\ pc = "start"
    /\ raised = ""
    /\ attrs = {}
    /\ L = 0
    /\ current = 0
    /\ Y = <<>>
    /\ V = <<>>
    /\ calls = 0
    /\ returned = <<>>
    /\ sample_all = <<>>
    /\ bulk_raised = ""
    /\ probes = {}
    /\ bulk_first = -1
    /\ bulk_last = -1
    /\ LszIdle

\* __init__, line 56-57
InitRaiseDimensions ==
    /\ pc = "start"
    /\ n_dimensions > Capacity(directions) + 1
    /\ pc' = "failed"
    /\ raised' = "not enough dimensions"
    /\ UNCHANGED <<n_samples, n_dimensions, scale, directions, attrs, L,
                   current, Y, V, calls, returned, sample_all, bulk_raised,
                   probes, bulk_first, bulk_last>>
    /\ UNCHANGED lszVars

\* __init__, line 59-62
InitRaiseBits ==
    /\ pc = "start"
    /\ ~(n_dimensions > Capacity(directions) + 1)
    /\ ComputeL(n_samples) > scale
    /\ pc' = "failed"
    /\ raised' = "not enough bits"
    /\ UNCHANGED <<n_samples, n_dimensions, scale, directions, attrs, L,
                   current, Y, V, calls, returned, sample_all, bulk_raised,
                   probes, bulk_first, bulk_last>>
    /\ UNCHANGED lszVars

\* __init__, line 64-72
InitOk ==
    /\ pc = "start"
    /\ ~(n_dimensions > Capacity(directions) + 1)
    /\ ~(ComputeL(n_samples) > scale)
    /\ pc' = "ready"
    /\ attrs' = {"n_samples", "n_dimensions", "scale", "L", "current", "Y", "V"}
    /\ L' = ComputeL(n_samples)
    /\ current' = 0
    /\ Y' = [c \in 1..n_dimensions |-> 0]
    /\ V' = generate_V(n_dimensions, L', scale, directions)
    /\ UNCHANGED <<n_samples, n_dimensions, scale, directions, raised, calls,
                   returned, sample_all, bulk_raised, probes, bulk_first,
                   bulk_last>>
    /\ UNCHANGED lszVars

\* __next__, line 158-159
NextStop ==
    /\ pc = "ready"
    /\ calls < n_samples + MaxExtraCalls
    /\ Exhausted(current, n_samples)
    /\ raised' = "StopIteration"
    /\ calls' = calls + 1
    /\ UNCHANGED <<n_samples, n_dimensions, scale, directions, pc, attrs, L,
                   current, Y, V, returned, sample_all, bulk_raised, probes, bulk_first,
                   bulk_last>>
    /\ UNCHANGED lszVars

\* __next__, line 160-162: returns the array self.Y itself
NextFirst ==
    /\ pc = "ready"
    /\ calls < n_samples + MaxExtraCalls
    /\ ~Exhausted(current, n_samples)
    /\ current = 0
    /\ current' = 1
    /\ returned' = Append(returned, [obj |-> "Y", val |-> IntRow(Y)])
    /\ raised' = ""
    /\ calls' = calls + 1
    /\ UNCHANGED <<n_samples, n_dimensions, scale, directions, pc, attrs, L,
                   Y, V, sample_all, bulk_raised, probes, bulk_first,
                   bulk_last>>
    /\ UNCHANGED lszVars

\* __next__, line 163-164, and generate_sample, line 141-152
NextGenerate ==
    /\ pc = "ready"
    /\ calls < n_samples + MaxExtraCalls
    /\ ~Exhausted(current, n_samples)
    /\ current # 0
    /\ calls' = calls + 1
    /\ LET idx == StepIndex(current)
       IN /\ probes' = probes \cup {<<current - 1, idx>>}
          /\ IF idx \in DOMAIN V
             THEN /\ Y' = XorRow(Y, V[idx])
                  /\ current' = current + 1
                  /\ returned' = Append(returned,
                         [obj |-> "sample_one", val |-> FloatRow(Y', scale)])
                  /\ raised' = ""
             ELSE /\ raised' = "IndexError"
                  /\ UNCHANGED <<Y, current, returned>>
    /\ UNCHANGED <<n_samples, n_dimensions, scale, directions, pc, attrs, L,
                   V, sample_all, bulk_raised, bulk_first, bulk_last>>
    /\ UNCHANGED lszVars

\* generate_all_samples, line 177-184
GenerateAllSamples ==
    /\ pc = "ready"
    /\ bulk_first' = IF bulk_first = -1 THEN calls ELSE bulk_first
    /\ bulk_last' = calls
    /\ LET bad == BulkBad(n_samples, V)
           stop == IF bad = {} THEN n_samples - 1
                   ELSE CHOOSE j \in bad : \A k \in bad : j <= k
       IN /\ probes' = probes \cup {<<j - 1, BulkIndex(j)>> : j \in 1..stop}
          /\ IF bad = {}
             THEN /\ sample_all' =
                        BulkMatrix(n_samples, n_dimensions, V, scale)
                  /\ bulk_raised' = ""
             ELSE /\ bulk_raised' = "IndexError"
                  /\ UNCHANGED sample_all
    /\ UNCHANGED <<n_samples, n_dimensions, scale, directions, pc, raised,
                   attrs, L, current, Y, V, calls, returned>>
    /\ UNCHANGED lszVars

Next ==
    \/ InitRaiseDimensions
    \/ InitRaiseBits
    \/ InitOk
    \/ NextStop
    \/ NextFirst
    \/ NextGenerate
    \/ GenerateAllSamples

Spec == Init /\ [][Next]_vars

(***************************************************************************)
(* index_of_least_significant_zero_bit, statement by statement.            *)
(***************************************************************************)
InitLsz ==
    /\ n_samples = 1
    /\ n_dimensions = 1
    /\ scale = DefaultScale
    /\ directions = <<>>
    /\ pc = "idle"
    /\ raised = ""
    /\ attrs = {}
    /\ L = 0
    /\ current = 0
    /\ Y = <<>>
    /\ V = <<>>
    /\ calls = 0
    /\ returned = <<>>
    /\ sample_all = <<>>
    /\ bulk_raised = ""
    /\ probes = {}
    /\ bulk_first = -1
    /\ bulk_last = -1
    /\ lsz_pc = "entry"
    /\ lsz_in \in 0..MaxValue
    /\ value = lsz_in
    /\ index = 0

\* line 89
LszBegin ==
    /\ lsz_pc = "entry"
    /\ index' = LszInitIndex
    /\ lsz_pc' = "loop"
    /\ UNCHANGED <<lsz_in, value>>
    /\ UNCHANGED genVars

\* line 90-92
LszShift ==
    /\ lsz_pc = "loop"
    /\ value % 2 # 0
    /\ value' = value \div 2
    /\ index' = index + 1
    /\ UNCHANGED <<lsz_pc, lsz_in>>
    /\ UNCHANGED genVars

\* line 90 and 93
LszReturn ==
    /\ lsz_pc = "loop"
    /\ ~(value % 2 # 0)
    /\ lsz_pc' = "done"
    /\ UNCHANGED <<lsz_in, value, index>>
    /\ UNCHANGED genVars

NextLsz ==
    \/ LszBegin
    \/ LszShift
    \/ LszReturn

SpecLsz == InitLsz /\ [][NextLsz]_vars /\ WF_vars(NextLsz)

(***************************************************************************)
(* Properties.                                                             *)
(***************************************************************************)
Columns == 1..n_dimensions

\* C1: the values the successive __next__ calls return are, row for row and
\* coordinate for coordinate, the rows of the matrix generate_all_samples
\* returns, and n_samples calls return n_samples rows.
C1_SequentialEqualsBulk ==
    (pc = "ready" /\ sample_all # <<>>) =>
        /\ Len(sample_all) = n_samples
        /\ \A k \in 1..Len(returned) : returned[k].val = sample_all[k]
        /\ calls >= n_samples => Len(returned) = n_samples

C1_Witness ==
    /\ pc = "ready"
    /\ sample_all # <<>>
    /\ Len(returned) = n_samples
    /\ n_samples >= 5
    /\ n_dimensions >= 3
    /\ directions = JoeKuo
    /\ returned[5].val = <<<<3, 3>>, <<3, 3>>, <<5, 3>>>>

C2_Counts ==
    pc = "ready" =>
        /\ calls <= n_samples => (Len(returned) = calls /\ raised = "")
        /\ calls > n_samples =>
              /\ raised = "StopIteration"
              /\ Len(returned) = n_samples
              /\ current > n_samples - 1

C2_Step ==
    (pc = "ready" /\ calls >= n_samples) =>
        /\ current' = current
        /\ Y' = Y
        /\ returned' = returned
        /\ calls' # calls => raised' = "StopIteration"

\* C2: exactly the first n_samples __next__ calls return a sample; every
\* later call raises StopIteration, returns nothing and leaves Y and current
\* unchanged, so the iterator stays exhausted.
C2_ExhaustionPermanent == [](C2_Counts) /\ [][C2_Step]_vars

C2_Witness ==
    /\ pc = "ready"
    /\ n_samples >= 2
    /\ calls > n_samples + 1
    /\ raised = "StopIteration"
    /\ Len(returned) = n_samples

\* 0, 0.5, 0.25, 0.75
VanDerCorputOrder == <<<<0, 0>>, <<1, 1>>, <<1, 2>>, <<3, 2>>>>

\* 0, 2^30, 2^29, 3 * 2^29
VanDerCorputY == <<0, Pow2(30), Pow2(29), 3 * Pow2(29)>>

\* 0, 0.5, 0.75, 0.25
GrayCodeOrder == <<<<0, 0>>, <<1, 1>>, <<3, 2>>, <<1, 2>>>>

\* 0, 2^30, 3 * 2^29, 2^29
GrayCodeY == <<0, Pow2(30), 3 * Pow2(29), Pow2(29)>>

FirstFour(vals, ys) ==
    (pc = "ready" /\ scale = DefaultScale /\ n_samples >= 4) =>
        /\ \A k \in 1..4 : k <= Len(returned) => returned[k].val[1] = vals[k]
        /\ \A k \in 1..4 : Len(returned) = k => Y[1] = ys[k]
        /\ sample_all # <<>> => \A k \in 1..4 : sample_all[k][1] = vals[k]

\* C3 as stated: with scale = 31 and n_samples >= 4, column 0 of samples
\* 0..3 is 0, 0.5, 0.25, 0.75 in the order produced, Y[0] being 0, 2^30,
\* 2^29, 3 * 2^29.
C3_VanDerCorputOrder == FirstFour(VanDerCorputOrder, VanDerCorputY)

\* C3 amended: with scale = 31 and n_samples >= 4, column 0 of samples 0..3
\* is 0, 0.5, 0.75, 0.25 in the order produced (Gray-code order), Y[0] being
\* 0, 2^30, 3 * 2^29, 2^29.
C3_GrayCodeOrder == FirstFour(GrayCodeOrder, GrayCodeY)

C3_Witness ==
    /\ pc = "ready"
    /\ scale = DefaultScale
    /\ n_samples >= 4
    /\ Len(returned) = 4
    /\ Y[1] = Pow2(29)
    /\ sample_all # <<>>

\* C4: for a table with seeds 0 < m[j] < 2^j every accumulator entry
\* satisfies 0 <= Y[i] < 2^scale and every coordinate returned by __next__
\* or stored by generate_all_samples lies in [0, 1).
C4_UnitInterval ==
    (pc = "ready" /\ SeedsBounded(directions)) =>
        /\ \A c \in Columns : Y[c] >= 0 /\ Shr(Y[c], scale) = 0
        /\ \A k \in 1..Len(returned) : \A c \in Columns :
               InUnitInterval(returned[k].val[c])
        /\ \A k \in 1..Len(sample_all) : \A c \in Columns :
               InUnitInterval(sample_all[k][c])

C4_Witness ==
    /\ pc = "ready"
    /\ SeedsBounded(directions)
    /\ n_dimensions >= 3
    /\ Len(returned) >= 5
    /\ sample_all # <<>>
    /\ \E c \in Columns : Shr(Y[c], scale - 1) = 1
    /\ \E k \in 1..Len(returned) : returned[k].val[3] = <<7, 3>>

\* C5 as stated: __init__ fails with "not enough dimensions" when
\* n_dimensions > capacity + 1 and with "not enough bits" when
\* ceil(log2(n_samples)) > scale, creates no attribute when it fails, and
\* succeeds for every configuration within both limits.
C5_ConstructionErrors ==
    pc # "start" =>
        /\ n_dimensions > Capacity(directions) + 1 =>
               (pc = "failed" /\ raised = "not enough dimensions")
        /\ (n_dimensions <= Capacity(directions) + 1
               /\ CeilLog2(n_samples) > scale) =>
               (pc = "failed" /\ raised = "not enough bits")
        /\ pc = "failed" => attrs = {}
        /\ (n_dimensions <= Capacity(directions) + 1
               /\ CeilLog2(n_samples) <= scale) => pc = "ready"

C6_Step ==
    pc = "ready" =>
        /\ V' = V
        /\ bulk_last' # bulk_last =>
              /\ Y' = Y
              /\ current' = current
              /\ returned' = returned
              /\ sample_all # <<>> => sample_all' = sample_all

\* C6: generate_all_samples leaves Y, current and V unchanged and returns the
\* same matrix whatever number of __next__ calls came before it; __next__
\* never changes V.
C6_BulkIndependent == [][C6_Step]_vars

C6_Witness ==
    /\ pc = "ready"
    /\ bulk_first = 0
    /\ bulk_last > n_samples
    /\ n_samples >= 4
    /\ n_dimensions >= 2
    /\ sample_all # <<>>
    /\ \E c \in Columns : Y[c] # 0

C7_Law ==
    lsz_pc = "done" =>
        /\ index >= 1
        /\ \A b \in 0..(index - 2) : Shr(lsz_in, b) % 2 = 1
        /\ Shr(lsz_in, index - 1) % 2 = 0
        /\ lsz_in = 0 => index = 1
        /\ lsz_in = 1 => index = 2
        /\ lsz_in = 3 => index = 3
        /\ lsz_in = 7 => index = 4
        /\ index = index_of_least_significant_zero_bit(lsz_in)

\* C7: index_of_least_significant_zero_bit terminates for every non-negative
\* v and returns the 1-based k with bits 0..k-2 of v set and bit k-1 clear
\* (1, 2, 3, 4 for v = 0, 1, 3, 7).
C7_LeastZeroBit == [](C7_Law) /\ <>(lsz_pc = "done")

C7_Witness ==
    /\ lsz_pc = "done"
    /\ lsz_in = 7
    /\ index = 4

\* C8: after a successful __init__ every row index used by __next__ or
\* generate_all_samples comes from a non-negative argument and lies in 1..L,
\* so no call raises IndexError and row 0 of V is never used.
C8_RowsInRange ==
    pc = "ready" =>
        /\ raised # "IndexError"
        /\ bulk_raised # "IndexError"
        /\ \A p \in probes :
              /\ p[1] >= 0
              /\ p[2] >= 1
              /\ p[2] <= L
              /\ p[2] \in DOMAIN V

C8_Witness ==
    /\ pc = "ready"
    /\ L >= 3
    /\ calls >= n_samples
    /\ bulk_last >= 0
    /\ \E p \in probes : p[2] = L

\* C9 as stated: an object returned by __next__ keeps the value it had when
\* it was returned, whatever __next__ calls follow.
C9_ReturnedStable ==
    \A k \in 1..Len(returned) : Deref(k) = returned[k].val

OddBitAt(v, j) ==
    /\ Shr(v, scale - j) % 2 = 1
    /\ Shl(Shr(v, scale - j), scale - j) = v

\* C10: for a table with odd seeds m[j] < 2^j every V[j, i], 1 <= j <= L,
\* has bit scale - j set and all lower bits clear, and the samples produced,
\* by __next__ or by generate_all_samples, are pairwise distinct in every
\* dimension.
C10_DistinctSamples ==
    (pc = "ready" /\ SeedsOdd(directions)) =>
        /\ \A j \in 1..L : \A c \in Columns : OddBitAt(V[j][c], j)
        /\ \A k1, k2 \in 1..Len(returned) : \A c \in Columns :
               k1 < k2 => returned[k1].val[c] # returned[k2].val[c]
        /\ \A k1, k2 \in 1..Len(sample_all) : \A c \in Columns :
               k1 < k2 => sample_all[k1][c] # sample_all[k2][c]

C10_Witness ==
    /\ pc = "ready"
    /\ SeedsOdd(directions)
    /\ directions = JoeKuoDeg3
    /\ n_dimensions >= 3
    /\ L >= 4
    /\ Len(returned) = n_samples
    /\ sample_all # <<>>

====
